---------------------------- MODULE Spec2Model ----------------------------
(***************************************************************************)
(* Model of the message API of src/main.py: a FastAPI application that     *)
(* keeps every message in one JSON document (MESSAGES_FILE) and serves     *)
(* seven routes.                                                           *)
(*                                                                         *)
(* Scheduling.  Every route handler is an `async def` coroutine whose body *)
(* holds no `await`: load_messages and save_messages are plain blocking    *)
(* calls.  uvicorn.run(app, ...) (line 289) runs one process with one      *)
(* event loop, so a handler body, once started, runs to its return or      *)
(* raise before any other coroutine is scheduled.  Requests overlap only   *)
(* around the handler body: several requests can be received and waiting.  *)
(* The model therefore has one action per handler (the dependency          *)
(* verify_api_key and the body validation included, neither of which reads *)
(* the store) and a separate action for the arrival of a request.          *)
(*                                                                         *)
(* Two specifications.  Spec: one connection (slot 1) sends requests one   *)
(* after the other, drawn from every route, credential and body; each step *)
(* is the arrival of a request together with the run of its handler.       *)
(* SpecConcurrent: MaxInFlight connections send create, mark-read and      *)
(* cleanup requests that wait side by side and are handled in any order.   *)
(*                                                                         *)
(* Scaling.  The code's limits 1000 (line 253), 900 (line 283) and 500     *)
(* (MAX_MESSAGE_LENGTH, line 107) are scaled down to MESSAGE_LIMIT,        *)
(* KEEP_LAST and MAX_MESSAGE_LENGTH below, keeping KEEP_LAST <             *)
(* MESSAGE_LIMIT.                                                          *)
(***************************************************************************)
EXTENDS Integers, Sequences, FiniteSets

\* Bounds of the model.
MESSAGE_LIMIT == 3      \* stands for the 1000 of `len(messages) >= 1000`
KEEP_LAST == 2          \* stands for the 900 of `messages[-900:]`
MAX_MESSAGE_LENGTH == 2 \* stands for the 500 characters of the validator
MaxInFlight == 2        \* requests the server holds at the same time
MaxUuid == 3            \* uuid4() values drawn in one run
MaxClock == 1           \* readings of datetime.now() range over 0..MaxClock

\* saves[r]: the calls of save_messages made while handling the request on
\* connection r.
VARIABLES file, uuidSeq, clock, req, resp, saves

vars == <<file, uuidSeq, clock, req, resp, saves>>

Slots == 1..MaxInFlight

-----------------------------------------------------------------------------
\* Configuration and request inputs.

\* The configured secret (its assignment is not in the file; line 23 requires it).
API_KEY == "secret"

\* The header sets a client may send: none, a wrong key, the right key.
HeaderSets == { <<>>, [x_api_key |-> "wrong"], [x_api_key |-> API_KEY] }

\* Texts are sequences of characters, so that len() is Len.
Hi == <<"h", "i">>
Yo == <<"y", "o">>
\* A message one character over the length limit.
TooLong == [i \in 1..(MAX_MESSAGE_LENGTH + 1) |-> "x"]

\* sender / message pairs of the request bodies.
Texts == { [sender |-> "alice", message |-> Hi],
           [sender |-> "bob", message |-> Yo],
           [sender |-> "bob", message |-> TooLong] }

\* Ids: uuid4() values are 1, 2, ...; 0 is a string a client made up.
CustomId == 0
NoTimestamp == -1

IdleReq == [route |-> "idle"]
NoResp == [status |-> 0]

\* A key of a JSON object, or the default when the object does not carry it.
Field(obj, key, default) == IF key \in DOMAIN obj THEN obj[key] ELSE default

-----------------------------------------------------------------------------
\* Data model (class Message).

validate_message_length(v) == Len(v) <= MAX_MESSAGE_LENGTH

\* Mutant: `read: bool = True`; a message is read unless the object says not.
Message_ReadByDefault(obj, fresh) ==
    [id        |-> Field(obj, "id", fresh),
     sender    |-> obj.sender,
     message   |-> obj.message,
     read      |-> Field(obj, "read", TRUE),
     timestamp |-> Field(obj, "timestamp", NoTimestamp)]

\* Message(**obj): every field is taken from obj when obj carries it; id
\* defaults to a fresh uuid4(), read to False, timestamp to None.
Message(obj, fresh) ==
    [id        |-> Field(obj, "id", fresh),
     sender    |-> obj.sender,
     message   |-> obj.message,
     read      |-> Field(obj, "read", FALSE),
     timestamp |-> Field(obj, "timestamp", NoTimestamp)]

\* msg.dict()
MessageDict(msg) ==
    [id        |-> msg.id,
     sender    |-> msg.sender,
     message   |-> msg.message,
     read      |-> msg.read,
     timestamp |-> msg.timestamp]

-----------------------------------------------------------------------------
\* Storage.

NoFile == [exists |-> FALSE, data |-> <<>>]

\* Mutant: the messages are rebuilt from sender and message alone; id, read
\* and timestamp fall back to their defaults.
load_messages_SenderAndMessage(f) ==
    IF ~f.exists THEN <<>>
    ELSE [i \in 1..Len(f.data) |->
            Message([sender |-> f.data[i].sender,
                     message |-> f.data[i].message], CustomId)]

\* Mutant: a missing document is read as one that holds a placeholder entry.
load_messages_Placeholder(f) ==
    IF ~f.exists
    THEN <<Message([sender |-> "system", message |-> <<>>], CustomId)>>
    ELSE [i \in 1..Len(f.data) |-> Message(f.data[i], CustomId)]

\* load_messages(): [] when the file does not exist, else one Message per
\* object of the document (the id is always in the document: no uuid drawn).
load_messages(f) ==
    IF ~f.exists THEN <<>>
    ELSE [i \in 1..Len(f.data) |-> Message(f.data[i], CustomId)]

\* save_messages(messages): the document is replaced as a whole.
save_messages(messages) ==
    [exists |-> TRUE,
     data   |-> [i \in 1..Len(messages) |-> MessageDict(messages[i])]]

\* Mutant: the slice keeps as many entries as the limit lets in.
LastN_Limit(s, n) ==
    IF Len(s) <= MESSAGE_LIMIT THEN s
    ELSE SubSeq(s, Len(s) - MESSAGE_LIMIT + 1, Len(s))

\* Mutant: messages[:n], the oldest entries are kept.
LastN_Oldest(s, n) == IF Len(s) <= n THEN s ELSE SubSeq(s, 1, n)

\* messages[-n:]
LastN(s, n) == IF Len(s) <= n THEN s ELSE SubSeq(s, Len(s) - n + 1, Len(s))

\* Mutant: the `not` is left out; the read messages are returned.
Unread_ReadOnes(s) == SelectSeq(s, LAMBDA m : m.read)

\* [msg for msg in s if not msg.read]
RECURSIVE Unread(_)
Unread(s) ==
    IF s = <<>> THEN <<>>
    ELSE IF ~Head(s).read THEN <<Head(s)>> \o Unread(Tail(s))
         ELSE Unread(Tail(s))

-----------------------------------------------------------------------------
\* Security.

\* APIKeyHeader(name="X-API-Key"): a request without the header is refused.
api_key_header(headers) == "x_api_key" \in DOMAIN headers

\* Mutant: the comparison with API_KEY is left out; any key passes.
verify_api_key_AnyKey(headers) == TRUE

verify_api_key(headers) == headers.x_api_key = API_KEY

Forbidden(detail) == [status |-> 403, detail |-> detail]

\* The response of the dependency when it refuses, NoResp when it lets through.
AuthResponse(headers) ==
    IF ~api_key_header(headers) THEN Forbidden("Not authenticated")
    ELSE IF ~verify_api_key(headers) THEN Forbidden("Invalid API key")
    ELSE NoResp

-----------------------------------------------------------------------------
Init ==
    /\ file = NoFile
    /\ uuidSeq = 0
    /\ clock = 0
    /\ req = [r \in Slots |-> IdleReq]
    /\ resp = [r \in Slots |-> NoResp]
    /\ saves = [r \in Slots |-> 0]

Pending(r) == req[r].route # "idle" /\ resp[r] = NoResp

\* Ids a client can put in a request: one it made up, or a uuid the server
\* drew earlier (the responses carry them).
KnownIds == 0..uuidSeq

\* The JSON bodies of POST /messages/: sender and message alone, or with an
\* id or a read flag of the client's choosing.
Bodies ==
    Texts
    \cup { [sender |-> "alice", message |-> Hi, id |-> CustomId],
           [sender |-> "bob", message |-> Yo, read |-> TRUE] }

NoBody == <<>>

RightKey == [x_api_key |-> API_KEY]

\* The requests the router hands to the handler of one route.  With the
\* right key: every body, every known id.  Without it: one body, and a
\* made-up id or the latest uuid.
RequestsTo(route) ==
    CASE route = "create" ->
           { [route |-> route, headers |-> RightKey, body |-> b,
              message_id |-> CustomId] : b \in Bodies }
           \cup { [route |-> route, headers |-> h,
                   body |-> [sender |-> "alice", message |-> Hi],
                   message_id |-> CustomId] : h \in HeaderSets \ {RightKey} }
      [] route = "mark" ->
           { [route |-> route, headers |-> RightKey, body |-> NoBody,
              message_id |-> i] : i \in KnownIds }
           \cup { [route |-> route, headers |-> h, body |-> NoBody,
                   message_id |-> i] :
                     h \in HeaderSets \ {RightKey}, i \in {CustomId, uuidSeq} }
      [] OTHER ->
           { [route |-> route, headers |-> h, body |-> NoBody,
              message_id |-> CustomId] : h \in HeaderSets }

\* A request out of Q arrives on connection r, whose previous request (if
\* any) has been answered, and waits for the event loop.
Receive(r, Q) ==
    /\ ~Pending(r)
    /\ \E q \in Q : req' = [req EXCEPT ![r] = q]
    /\ resp' = [resp EXCEPT ![r] = NoResp]
    /\ saves' = [saves EXCEPT ![r] = 0]
    /\ UNCHANGED <<file, uuidSeq, clock>>

\* The server clock advances.
Tick ==
    /\ clock < MaxClock
    /\ clock' = clock + 1
    /\ UNCHANGED <<file, uuidSeq, req, resp, saves>>

\* Connection r holds request q and the response to it.
Reply(r, q, response) ==
    /\ req' = [req EXCEPT ![r] = q]
    /\ resp' = [resp EXCEPT ![r] = response]

Ok(body) == [status |-> 200, body |-> body]

HttpError(status, detail) == [status |-> status, detail |-> detail]

\* The request body parsed into a Message (the parameter `message`): a body
\* without an id draws the next uuid4().
BodyMessage(body) == Message(body, uuidSeq + 1)

\* Mutant: `>` for `>=`; one entry too many is let in.
AtCapacity_OffByOne(messages) == Len(messages) > MESSAGE_LIMIT

\* len(messages) >= 1000
AtCapacity(messages) == Len(messages) >= MESSAGE_LIMIT

\* Mutant: the capacity check is left out.
CreateRejection_NoCapacity(body, messages) ==
    IF ~validate_message_length(body.message)
    THEN HttpError(422, "value_error")
    ELSE NoResp

\* Mutant: the length is checked in the handler, after the capacity check.
CreateRejection_CapacityFirst(body, messages) ==
    IF Len(messages) >= MESSAGE_LIMIT
    THEN HttpError(400, "Maximum message limit reached")
    ELSE IF ~validate_message_length(body.message)
    THEN HttpError(422, "value_error")
    ELSE NoResp

\* The error that ends a create request whose credential was accepted, NoResp
\* when there is none.  The body is validated while the parameter `message`
\* is built, before the handler body runs and loads the store.
CreateRejection(body, messages) ==
    IF ~validate_message_length(body.message)
    THEN HttpError(422, "value_error")
    ELSE IF AtCapacity(messages)
    THEN HttpError(400, "Maximum message limit reached")
    ELSE NoResp

\* Mutant: the new record takes the place of the newest stored one, as when
\* the save rests on a list loaded before that one was saved.
Appended_OverNewest(messages, message) ==
    IF messages = <<>> THEN <<message>>
    ELSE [messages EXCEPT ![Len(messages)] = message]

\* Mutant: messages.insert(0, message); the new record goes to the front.
Appended_AtFront(messages, message) == <<message>> \o messages

\* messages.append(message)
Appended(messages, message) == Append(messages, message)

\* POST /messages/
create_message(r, q) ==
    LET auth == AuthResponse(q.headers)
        drawsUuid == "id" \notin DOMAIN q.body
        messages == load_messages(file)
        rejection == CreateRejection(q.body, messages)
        message == [BodyMessage(q.body) EXCEPT !.timestamp = clock]
    IN  /\ q.route = "create"
        /\ IF auth # NoResp
           THEN /\ Reply(r, q, auth)
                /\ saves' = [saves EXCEPT ![r] = 0]
                /\ UNCHANGED <<file, uuidSeq>>
           ELSE /\ drawsUuid => uuidSeq < MaxUuid
                /\ uuidSeq' = IF drawsUuid THEN uuidSeq + 1 ELSE uuidSeq
                /\ IF rejection # NoResp
                   THEN /\ Reply(r, q, rejection)
                        /\ saves' = [saves EXCEPT ![r] = 0]
                        /\ UNCHANGED file
                   ELSE /\ file' = save_messages(Appended(messages, message))
                        /\ saves' = [saves EXCEPT ![r] = 1]
                        /\ Reply(r, q, Ok(message))
        /\ UNCHANGED clock

\* GET /messages/
get_messages(r, q) ==
    LET auth == AuthResponse(q.headers)
    IN  /\ q.route = "list"
        /\ Reply(r, q, IF auth # NoResp THEN auth ELSE Ok(load_messages(file)))
        /\ saves' = [saves EXCEPT ![r] = 0]
        /\ UNCHANGED <<file, uuidSeq, clock>>

\* GET /messages/unread
get_unread_messages(r, q) ==
    LET auth == AuthResponse(q.headers)
    IN  /\ q.route = "unread"
        /\ Reply(r, q, IF auth # NoResp THEN auth
                    ELSE Ok(Unread(load_messages(file))))
        /\ saves' = [saves EXCEPT ![r] = 0]
        /\ UNCHANGED <<file, uuidSeq, clock>>

\* Mutant: the position of the last message with the id.
FirstWithId_Last(messages, id) ==
    IF \E i \in 1..Len(messages) : messages[i].id = id
    THEN CHOOSE i \in 1..Len(messages) :
            /\ messages[i].id = id
            /\ \A j \in (i + 1)..Len(messages) : messages[j].id # id
    ELSE 0

\* The position of the first message with the id, 0 when there is none.
FirstWithId(messages, id) ==
    IF \E i \in 1..Len(messages) : messages[i].id = id
    THEN CHOOSE i \in 1..Len(messages) :
            /\ messages[i].id = id
            /\ \A j \in 1..(i - 1) : messages[j].id # id
    ELSE 0

\* Mutant: the flag is flipped instead of set.
MarkedRead_Toggle(messages, i) == [messages EXCEPT ![i].read = ~@]

\* Mutant: the loop does not stop at the first match; every message with the
\* id is marked.
MarkedRead_EveryMatch(messages, i) ==
    [j \in 1..Len(messages) |->
        IF messages[j].id = messages[i].id
        THEN [messages[j] EXCEPT !.read = TRUE]
        ELSE messages[j]]

\* message.read = True on the message at position i
MarkedRead(messages, i) == [messages EXCEPT ![i].read = TRUE]

\* Mutant: the list is saved after the loop as well, when no message matched.
mark_as_read_SaveAlways(r, q) ==
    LET auth == AuthResponse(q.headers)
        messages == load_messages(file)
        i == FirstWithId(messages, q.message_id)
    IN  /\ q.route = "mark"
        /\ IF auth # NoResp
           THEN /\ Reply(r, q, auth)
                /\ saves' = [saves EXCEPT ![r] = 0]
                /\ UNCHANGED file
           ELSE IF i # 0
           THEN /\ file' = save_messages(MarkedRead(messages, i))
                /\ saves' = [saves EXCEPT ![r] = 1]
                /\ Reply(r, q, Ok([status |-> "success"]))
           ELSE /\ Reply(r, q, HttpError(404, "Message not found"))
                /\ file' = save_messages(messages)
                /\ saves' = [saves EXCEPT ![r] = 1]
        /\ UNCHANGED <<uuidSeq, clock>>

\* PUT /messages/{message_id}/read
mark_as_read(r, q) ==
    LET auth == AuthResponse(q.headers)
        messages == load_messages(file)
        i == FirstWithId(messages, q.message_id)
    IN  /\ q.route = "mark"
        /\ IF auth # NoResp
           THEN /\ Reply(r, q, auth)
                /\ saves' = [saves EXCEPT ![r] = 0]
                /\ UNCHANGED file
           ELSE IF i # 0
           THEN /\ file' = save_messages(MarkedRead(messages, i))
                /\ saves' = [saves EXCEPT ![r] = 1]
                /\ Reply(r, q, Ok([status |-> "success"]))
           ELSE /\ Reply(r, q, HttpError(404, "Message not found"))
                /\ saves' = [saves EXCEPT ![r] = 0]
                /\ UNCHANGED file
        /\ UNCHANGED <<uuidSeq, clock>>

\* DELETE /messages/cleanup
cleanup_messages(r, q) ==
    LET auth == AuthResponse(q.headers)
        messages == LastN(load_messages(file), KEEP_LAST)
    IN  /\ q.route = "cleanup"
        /\ IF auth # NoResp
           THEN /\ Reply(r, q, auth)
                /\ saves' = [saves EXCEPT ![r] = 0]
                /\ UNCHANGED file
           ELSE /\ file' = save_messages(messages)
                /\ saves' = [saves EXCEPT ![r] = 1]
                /\ Reply(r, q, Ok([status |-> "success",
                                remaining_messages |-> Len(messages)]))
        /\ UNCHANGED <<uuidSeq, clock>>

\* GET /privacy: no dependency on verify_api_key; a static page.
privacy_policy(r, q) ==
    /\ q.route = "privacy"
    /\ Reply(r, q, Ok("privacy policy"))
    /\ saves' = [saves EXCEPT ![r] = 0]
    /\ UNCHANGED <<file, uuidSeq, clock>>

\* GET /.well-known/openapi.yaml: no dependency on verify_api_key.
get_openapi_yaml(r, q) ==
    /\ q.route = "openapi"
    /\ Reply(r, q, Ok("openapi schema"))
    /\ saves' = [saves EXCEPT ![r] = 0]
    /\ UNCHANGED <<file, uuidSeq, clock>>

\* The requests SpecConcurrent sends: the three mutating routes, with the
\* right key and a body of sender and message alone.
Mutations ==
    { q \in RequestsTo("create") \cup RequestsTo("mark") \cup RequestsTo("cleanup") :
        /\ q.headers = RightKey
        /\ DOMAIN q.body \subseteq {"sender", "message"} }

\* One connection, one request at a time: a request arrives and is handled.
Next ==
    \/ \E q \in RequestsTo("create") : create_message(1, q)
    \/ \E q \in RequestsTo("list") : get_messages(1, q)
    \/ \E q \in RequestsTo("unread") : get_unread_messages(1, q)
    \/ \E q \in RequestsTo("mark") : mark_as_read(1, q)
    \/ \E q \in RequestsTo("cleanup") : cleanup_messages(1, q)
    \/ \E q \in RequestsTo("privacy") : privacy_policy(1, q)
    \/ \E q \in RequestsTo("openapi") : get_openapi_yaml(1, q)
    \/ Tick

Spec == Init /\ [][Next]_vars

\* MaxInFlight connections: requests arrive and wait, and the event loop runs
\* the handler of any waiting request.
NextConcurrent ==
    \/ \E r \in Slots : Receive(r, Mutations)
    \/ \E r \in Slots : Pending(r) /\ create_message(r, req[r])
    \/ \E r \in Slots : Pending(r) /\ mark_as_read(r, req[r])
    \/ \E r \in Slots : Pending(r) /\ cleanup_messages(r, req[r])
    \/ Tick

SpecConcurrent == Init /\ [][NextConcurrent]_vars

-----------------------------------------------------------------------------
\* Vocabulary of the properties.

\* The persisted collection, as the handlers load it.
Store == load_messages(file)

\* The same after the step.
StoreNext == load_messages(file')

\* Connection r holds the response to a request to `route` with this status.
Answered(r, route, status) ==
    /\ req[r].route = route
    /\ resp[r].status = status

\* Under Spec every step but Tick is the arrival of a request on connection
\* 1 and the run of its handler: req'[1] and resp'[1] are that request and
\* its response, file and file' the document before and after it.
Handled(route) ==
    /\ clock' = clock
    /\ vars' # vars
    /\ req'[1].route = route

\* Under SpecConcurrent: the handler of the request waiting on r runs.
HandledOn(r, route) ==
    /\ Pending(r)
    /\ resp'[r] # NoResp
    /\ req[r].route = route

InStore(message) == \E i \in 1..Len(Store) : Store[i] = message

-----------------------------------------------------------------------------
\* C1: in every reachable state the persisted collection holds at most
\* MESSAGE_LIMIT (the code's 1000) entries.
C1_AtMostLimit == Len(Store) <= MESSAGE_LIMIT

\* A create has just filled the collection to the limit.
C1_Witness ==
    /\ Answered(1, "create", 200)
    /\ Len(Store) = MESSAGE_LIMIT

C3_UniqueIds ==
    \A i, j \in 1..Len(Store) : i # j => Store[i].id # Store[j].id

\* C4: the read flag is monotone.  Across every step, an entry that stays in
\* the collection (create appends at the end and cleanup removes from the
\* front, so the entry at position i after the step is the one that was at
\* position i plus the number of removed entries) and had read = true before
\* the step has read = true after it.
C4_ReadMonotone ==
    [][LET removed == IF Len(StoreNext) < Len(Store)
                      THEN Len(Store) - Len(StoreNext) ELSE 0
       IN  \A i \in 1..Len(StoreNext) :
              (i + removed <= Len(Store) /\ Store[i + removed].read)
                 => StoreNext[i].read]_vars

\* A read entry has moved to the front through a cleanup and is still read,
\* with an unread entry behind it.
C4_Witness ==
    /\ \E r \in Slots : Answered(r, "cleanup", 200)
    /\ Len(Store) = KEEP_LAST
    /\ Store[1].read
    /\ ~Store[Len(Store)].read

\* C5: the record a successful create adds to the persisted collection has
\* read = false, whatever the request body carries.
C5_CreatedUnread ==
    Answered(1, "create", 200) => ~Store[Len(Store)].read

C7_RejectedAtCapacity ==
    [][(Handled("create") /\ Len(Store) = MESSAGE_LIMIT)
          => /\ resp'[1].status \in {400, 403, 422}
             /\ file' = file
             /\ (/\ req'[1].headers = RightKey
                 /\ Len(req'[1].body.message) <= MAX_MESSAGE_LENGTH)
                   => resp'[1] = HttpError(400, "Maximum message limit reached")]_vars

\* The capacity error was returned on a full collection.
C7_Witness ==
    /\ Answered(1, "create", 400)
    /\ Len(Store) = MESSAGE_LIMIT

\* C8: a create with the right key whose message is longer than
\* MAX_MESSAGE_LENGTH is rejected with the validation error (422), also when
\* the collection is at capacity, and leaves the persisted document as it was.
C8_TooLongRejected ==
    [][(/\ Handled("create")
        /\ req'[1].headers = RightKey
        /\ Len(req'[1].body.message) > MAX_MESSAGE_LENGTH)
          => /\ resp'[1].status = 422
             /\ file' = file]_vars

\* The validation error was returned on a full collection.
C8_Witness ==
    /\ Answered(1, "create", 422)
    /\ Len(req[1].body.message) > MAX_MESSAGE_LENGTH
    /\ Len(Store) = MESSAGE_LIMIT

\* C9: mark_read with the right key on an id some entry has returns the
\* success acknowledgment, sets read = true on the first entry with that id and
\* leaves every other field, every other entry and the order unchanged; when
\* that entry was read already (a second call), the collection is unchanged.
C9_MarkRead ==
    [][(/\ Handled("mark")
        /\ req'[1].headers = RightKey
        /\ \E i \in 1..Len(Store) : Store[i].id = req'[1].message_id)
          => /\ resp'[1] = Ok([status |-> "success"])
             /\ Len(StoreNext) = Len(Store)
             /\ \E i \in 1..Len(Store) :
                   /\ Store[i].id = req'[1].message_id
                   /\ \A j \in 1..(i - 1) : Store[j].id # req'[1].message_id
                   /\ StoreNext[i].read
                   /\ StoreNext[i].id = Store[i].id
                   /\ StoreNext[i].sender = Store[i].sender
                   /\ StoreNext[i].message = Store[i].message
                   /\ StoreNext[i].timestamp = Store[i].timestamp
                   /\ \A j \in 1..Len(Store) : j # i => StoreNext[j] = Store[j]
                   /\ Store[i].read => StoreNext = Store]_vars

\* A mark-read succeeded on the second of three entries: it is read, its
\* neighbours are not.
C9_Witness ==
    /\ Answered(1, "mark", 200)
    /\ Len(Store) = 3
    /\ Store[2].id = req[1].message_id
    /\ Store[2].read
    /\ ~Store[1].read
    /\ ~Store[3].read

\* C10: mark_read with the right key on an id no entry has is rejected with
\* the not-found error (404) and the persisted document after it is the
\* document before it: nothing is saved, and a missing document stays missing.
C10_MarkUnknown ==
    [][(/\ Handled("mark")
        /\ req'[1].headers = RightKey
        /\ \A i \in 1..Len(Store) : Store[i].id # req'[1].message_id)
          => /\ resp'[1] = HttpError(404, "Message not found")
             /\ file' = file]_vars

\* The not-found error was returned on a collection with entries.
C10_Witness ==
    /\ Answered(1, "mark", 404)
    /\ Len(Store) >= 2
    /\ \A i \in 1..Len(Store) : Store[i].id # req[1].message_id

\* C11: a cleanup with the right key on a collection of S entries succeeds;
\* when S <= KEEP_LAST (the code's 900) the stored sequence is unchanged and
\* the response reports remaining = S; when S > KEEP_LAST the stored sequence
\* becomes exactly the last KEEP_LAST entries, in their order, and the
\* response reports remaining = KEEP_LAST.  A cleanup that follows a
\* successful cleanup leaves the stored sequence as it found it.
C11_Cleanup ==
    [][(Handled("cleanup") /\ req'[1].headers = RightKey)
          => /\ resp'[1].status = 200
             /\ resp'[1].body.status = "success"
             /\ IF Len(Store) <= KEEP_LAST
                THEN /\ StoreNext = Store
                     /\ resp'[1].body.remaining_messages = Len(Store)
                ELSE /\ Len(StoreNext) = KEEP_LAST
                     /\ \A i \in 1..KEEP_LAST :
                           StoreNext[i] = Store[Len(Store) - KEEP_LAST + i]
                     /\ resp'[1].body.remaining_messages = KEEP_LAST
             /\ Answered(1, "cleanup", 200) => StoreNext = Store]_vars

\* A cleanup has cut a collection down to KEEP_LAST entries: the first uuid
\* is no longer stored, the two drawn after it are, in their order.
C11_Witness ==
    /\ Answered(1, "cleanup", 200)
    /\ resp[1].body.remaining_messages = KEEP_LAST
    /\ Len(Store) = KEEP_LAST
    /\ Store[1].id = 2
    /\ Store[Len(Store)].id > 2

\* C12: list_all with the right key returns the loaded sequence as it is
\* stored; list_unread returns exactly the entries of it with read = false, in
\* the same relative order (the k-th unread entry of the collection is the
\* k-th entry of the result, and there are no others); a list_unread that
\* follows a list_all is that subsequence of what the list_all returned; and
\* neither changes the persisted document nor saves.
C12_Lists ==
    [][/\ (Handled("list") /\ req'[1].headers = RightKey)
            => /\ resp'[1].status = 200
               /\ resp'[1].body = Store
               /\ file' = file
       /\ (Handled("unread") /\ req'[1].headers = RightKey)
            => LET out == resp'[1].body
                   unread == {i \in 1..Len(Store) : ~Store[i].read}
               IN  /\ resp'[1].status = 200
                   /\ Len(out) = Cardinality(unread)
                   /\ \A i \in unread :
                         out[Cardinality({j \in unread : j <= i})] = Store[i]
                   /\ file' = file
       /\ (/\ Answered(1, "list", 200)
           /\ Handled("unread")
           /\ req'[1].headers = RightKey)
            => LET all == resp[1].body
                   out == resp'[1].body
                   unread == {i \in 1..Len(all) : ~all[i].read}
               IN  /\ Len(out) = Cardinality(unread)
                   /\ \A i \in unread :
                         out[Cardinality({j \in unread : j <= i})] = all[i]]_vars

\* list_unread has returned the first and the third of three entries, the
\* second being read.
C12_Witness ==
    /\ Answered(1, "unread", 200)
    /\ Len(Store) = 3
    /\ ~Store[1].read
    /\ Store[2].read
    /\ ~Store[3].read
    /\ resp[1].body = <<Store[1], Store[3]>>

\* C13: messages are removed automatically when the limit is reached: a
\* create with the right key and a body within the length limit, handled when
\* the collection holds MESSAGE_LIMIT entries, succeeds and the oldest entries
\* (at least the first) are gone from the collection after it, the remaining
\* ones keeping their order ahead of the new record.
C13_AutoRemoval ==
    [][(/\ Handled("create")
        /\ req'[1].headers = RightKey
        /\ Len(req'[1].body.message) <= MAX_MESSAGE_LENGTH
        /\ Len(Store) = MESSAGE_LIMIT)
          => /\ resp'[1].status = 200
             /\ \E k \in 1..Len(Store) :
                   StoreNext = Append(SubSeq(Store, k + 1, Len(Store)),
                                      resp'[1].body)]_vars

\* C14: a successful create appends exactly one record, the one it returns,
\* at the end of the persisted sequence and leaves every earlier entry in its
\* place; no other step adds an entry; no step but a successful cleanup
\* removes one; and across every step that changes the persisted document an
\* entry that stays in the collection (followed by position, cleanup removing
\* from the front) keeps its id, sender, message and timestamp.
C14_Frame ==
    [][LET removed == IF Len(StoreNext) < Len(Store)
                      THEN Len(Store) - Len(StoreNext) ELSE 0
           created == Handled("create") /\ resp'[1].status = 200
           cleaned == Handled("cleanup") /\ resp'[1].status = 200
       IN  /\ created => /\ Len(StoreNext) = Len(Store) + 1
                         /\ \A i \in 1..Len(Store) : StoreNext[i] = Store[i]
                         /\ StoreNext[Len(StoreNext)] = resp'[1].body
           /\ ~created => Len(StoreNext) <= Len(Store)
           /\ ~cleaned => Len(StoreNext) >= Len(Store)
           /\ file' # file
                 => \A i \in 1..Len(StoreNext) :
                       i + removed <= Len(Store)
                          => LET old == Store[i + removed]
                                 new == StoreNext[i]
                             IN  /\ new.id = old.id
                                 /\ new.sender = old.sender
                                 /\ new.message = old.message
                                 /\ new.timestamp = old.timestamp]_vars

\* A create at a later clock reading has added the third record behind an
\* entry that was marked read in the meantime and kept its earlier timestamp.
C14_Witness ==
    /\ Answered(1, "create", 200)
    /\ Len(Store) = 3
    /\ Store[3] = resp[1].body
    /\ Store[3].timestamp = 1
    /\ Store[1].timestamp = 0
    /\ Store[1].read
    /\ Store[1].sender # Store[3].sender

\* C15: the scenario, run one request after the other with the right key.
\* Each line's starting point is the previous line's result.
\*   1. On the empty store create(alice, hi) succeeds and the store is the one
\*      returned record: alice, hi, read = false.
\*   2. With that record stored, create(bob, yo) succeeds and the store is the
\*      alice record followed by the returned bob record, unread, with another
\*      id.
\*   3. On that store list_all returns the two records in that order, both
\*      with read = false.
\*   4. On that store mark_read of the alice record's id succeeds and the
\*      store is the alice record with read = true, followed by the bob record.
\*   5. On that store list_unread returns the bob record alone.
C15_Scenario ==
    [][LET Is(m, sender, text, read) ==
               /\ m.sender = sender
               /\ m.message = text
               /\ m.read = read
           authorized(route) == Handled(route) /\ req'[1].headers = RightKey
           bothUnread ==
               /\ Len(Store) = 2
               /\ Is(Store[1], "alice", Hi, FALSE)
               /\ Is(Store[2], "bob", Yo, FALSE)
               /\ Store[1].id # Store[2].id
       IN  /\ (/\ authorized("create")
               /\ req'[1].body = [sender |-> "alice", message |-> Hi]
               /\ Store = <<>>)
                 => /\ resp'[1].status = 200
                    /\ Is(resp'[1].body, "alice", Hi, FALSE)
                    /\ StoreNext = <<resp'[1].body>>
           /\ (/\ authorized("create")
               /\ req'[1].body = [sender |-> "bob", message |-> Yo]
               /\ Answered(1, "create", 200)
               /\ Store = <<resp[1].body>>
               /\ Is(Store[1], "alice", Hi, FALSE))
                 => /\ resp'[1].status = 200
                    /\ Is(resp'[1].body, "bob", Yo, FALSE)
                    /\ resp'[1].body.id # Store[1].id
                    /\ StoreNext = <<Store[1], resp'[1].body>>
           /\ (authorized("list") /\ bothUnread)
                 => /\ resp'[1].status = 200
                    /\ Len(resp'[1].body) = 2
                    /\ Is(resp'[1].body[1], "alice", Hi, FALSE)
                    /\ Is(resp'[1].body[2], "bob", Yo, FALSE)
                    /\ StoreNext = Store
           /\ (/\ authorized("mark")
               /\ bothUnread
               /\ req'[1].message_id = Store[1].id)
                 => /\ resp'[1] = Ok([status |-> "success"])
                    /\ StoreNext = <<[Store[1] EXCEPT !.read = TRUE], Store[2]>>
           /\ (/\ authorized("unread")
               /\ Len(Store) = 2
               /\ Is(Store[1], "alice", Hi, TRUE)
               /\ Is(Store[2], "bob", Yo, FALSE))
                 => resp'[1] = Ok(<<Store[2]>>)]_vars

\* The end of the scenario: exactly two uuids were drawn, the alice record
\* carries the first and is read, the bob record carries the second and is
\* the one entry list_unread has returned.
C15_Witness ==
    /\ Answered(1, "unread", 200)
    /\ uuidSeq = 2
    /\ Len(Store) = 2
    /\ Store[1] = [id |-> 1, sender |-> "alice", message |-> Hi,
                   read |-> TRUE, timestamp |-> 0]
    /\ Store[2] = [id |-> 2, sender |-> "bob", message |-> Yo,
                   read |-> FALSE, timestamp |-> 0]
    /\ resp[1].body = <<Store[2]>>

C17_Saves ==
    [][\A route \in {"create", "list", "unread", "mark", "cleanup"} :
          Handled(route)
             => /\ resp'[1].status # 200
                   => /\ saves'[1] = 0
                      /\ file' = file
                /\ (resp'[1].status = 200 /\ route \in {"list", "unread"})
                   => /\ saves'[1] = 0
                      /\ file' = file
                /\ (resp'[1].status = 200 /\ route \in {"create", "mark", "cleanup"})
                   => /\ saves'[1] = 1
                      /\ file'.exists
                      /\ req'[1].headers = RightKey
                      /\ route = "create"
                            => /\ Len(req'[1].body.message) <= MAX_MESSAGE_LENGTH
                               /\ Len(Store) < MESSAGE_LIMIT
                      /\ route = "mark"
                            => \E i \in 1..Len(Store) :
                                  Store[i].id = req'[1].message_id]_vars

\* A cleanup has made its one save where there was nothing to remove: the
\* document it wrote holds no entries.
C17_Witness ==
    /\ Answered(1, "cleanup", 200)
    /\ saves[1] = 1
    /\ file.exists
    /\ file.data = <<>>

\* C18: when several stored entries carry the id given to mark_read, the
\* request succeeds, the first of them in stored order has read = true after
\* it and every other entry, the later ones with that id included, is
\* unchanged.  And across every step, an unread entry that has an earlier
\* entry with the same id stays unread as long as both stay in the collection
\* (entries followed by position, cleanup removing from the front).
C18_FirstOfDuplicates ==
    [][/\ (/\ Handled("mark")
           /\ req'[1].headers = RightKey
           /\ \E i, j \in 1..Len(Store) :
                 /\ i < j
                 /\ Store[i].id = req'[1].message_id
                 /\ Store[j].id = req'[1].message_id)
             => /\ resp'[1].status = 200
                /\ Len(StoreNext) = Len(Store)
                /\ \E i \in 1..Len(Store) :
                      /\ Store[i].id = req'[1].message_id
                      /\ \A j \in 1..(i - 1) : Store[j].id # req'[1].message_id
                      /\ StoreNext[i].read
                      /\ \A j \in 1..Len(Store) : j # i => StoreNext[j] = Store[j]
       /\ file' # file
             => LET removed == IF Len(StoreNext) < Len(Store)
                               THEN Len(Store) - Len(StoreNext) ELSE 0
                IN  \A i, j \in (removed + 1)..Len(Store) :
                       (/\ i < j
                        /\ j - removed <= Len(StoreNext)
                        /\ Store[i].id = Store[j].id
                        /\ ~Store[j].read)
                          => ~StoreNext[j - removed].read]_vars

\* mark_read has succeeded on an id that the first two entries share: the
\* first is read, the second is not.
C18_Witness ==
    /\ Answered(1, "mark", 200)
    /\ Len(Store) >= 2
    /\ Store[1].id = req[1].message_id
    /\ Store[2].id = req[1].message_id
    /\ Store[1].read
    /\ ~Store[2].read

\* C19: requests running one at a time.  While the collection holds
\* MESSAGE_LIMIT entries, every step but a successful cleanup leaves it at
\* MESSAGE_LIMIT entries and every create is rejected without a change of the
\* document.  A successful cleanup leaves at most KEEP_LAST entries; no step
\* but a successful create adds an entry; and a create with the right key and
\* a body within the length limit succeeds and adds its record when it comes
\* right after a successful cleanup, or at any time the collection holds at
\* most KEEP_LAST entries.
C19_FullUntilCleanup ==
    [][LET created == Handled("create") /\ resp'[1].status = 200
           cleaned == Handled("cleanup") /\ resp'[1].status = 200
           valid == /\ Handled("create")
                    /\ req'[1].headers = RightKey
                    /\ Len(req'[1].body.message) <= MAX_MESSAGE_LENGTH
       IN  /\ (Len(Store) = MESSAGE_LIMIT /\ ~cleaned)
                 => /\ Len(StoreNext) = MESSAGE_LIMIT
                    /\ Handled("create")
                          => /\ resp'[1].status # 200
                             /\ file' = file
           /\ cleaned => Len(StoreNext) <= KEEP_LAST
           /\ ~created => Len(StoreNext) <= Len(Store)
           /\ (valid /\ (Answered(1, "cleanup", 200) \/ Len(Store) <= KEEP_LAST))
                 => /\ resp'[1].status = 200
                    /\ Len(StoreNext) = Len(Store) + 1]_vars

\* A create has succeeded on a collection under the limit and has filled it:
\* all uuids of the run are drawn, the first of them is not among the stored
\* ids, and the newest record carries an id the client chose.
C19_Witness ==
    /\ Answered(1, "create", 200)
    /\ uuidSeq = MaxUuid
    /\ Len(Store) = MESSAGE_LIMIT
    /\ Store[1].id = 2
    /\ Store[2].id = 3
    /\ Store[3].id = CustomId

\* C20: while no persisted document exists, requests with the right key are
\* answered as on an empty collection: list_all and list_unread return the
\* empty list, mark_read of any id is rejected as not found (404), and
\* cleanup succeeds reporting remaining = 0.
C20_NoDocument ==
    [][\A route \in {"list", "unread", "mark", "cleanup"} :
          (/\ Handled(route)
           /\ req'[1].headers = RightKey
           /\ ~file.exists)
             => /\ route \in {"list", "unread"} => resp'[1] = Ok(<<>>)
                /\ route = "mark"
                      => resp'[1] = HttpError(404, "Message not found")
                /\ route = "cleanup"
                      => resp'[1] = Ok([status |-> "success",
                                        remaining_messages |-> 0])]_vars

\* list_unread has returned the empty list and there is still no document.
C20_Witness ==
    /\ Answered(1, "unread", 200)
    /\ req[1].headers = RightKey
    /\ resp[1].body = <<>>
    /\ ~file.exists

====
